---- MODULE Spec2Model ----
\* AssertUnmoved<T> (src/src/assert_unmoved.rs): a wrapper that records its own
\* address at the first pinned mutable access and asserts, at every later
\* pinned access, at get_mut and at drop, that it still lives at that address.
EXTENDS Integers, FiniteSets, Sequences, TLC

\* ---------------------------------------------------------------- bounds
\* Addresses the guard can live at are 1..MaxAddr (a reference is never null,
\* so 0 is free to be the "not yet pinned" sentinel of this_addr).
MaxAddr == 2
\* Call sites (Location::caller()) are 1..MaxLoc; 0 stands for None.
MaxLoc == 2
\* The inner future needs at most MaxInner more polls before it is Ready.
MaxInner == 1
\* get_pin_mut calls on one guard are counted up to MaxCalls (saturating:
\* MaxCalls stands for "MaxCalls or more").
MaxCalls == 2

Addrs == 1..MaxAddr
Locs == 1..MaxLoc
Inners == 0..MaxInner

\* The three assertion messages (first line of each assert_eq! message).
MsgBetween == "AssertUnmoved moved between get_pin_mut calls"
MsgAfter == "AssertUnmoved moved after get_pin_mut call"
MsgDrop == "AssertUnmoved moved before drop"
NoMsg == ""

VARIABLES
    alive,          \* the guard exists (constructed and not yet dropped)
    self_addr,      \* where the guard currently lives: what addr() returns
    inner,          \* field inner: the wrapped future (polls left until Ready)
    this_addr,      \* field this_addr: 0, or the address recorded at first pin
    first_pinned_mutably_accessed_at,   \* field: 0 (None) or the call site
    panic_count,    \* panics in flight on this thread; 2 = process aborted
    panic_msg,      \* the message of the panic in flight, NoMsg if none
    born_at,        \* history: self_addr when the guard was constructed
    pin_calls,      \* history: get_pin_mut calls on this guard (saturating)
    first_pin_addr, \* history: self_addr at the first get_pin_mut call, or 0
    pinned_at,      \* history: self_addr at the last get_pin_mut call that
                    \*          returned access, or 0
    pin_failed,     \* history: some get_pin_mut call on this guard panicked
    first_pin_loc,  \* history: the call site of the first get_pin_mut call, or 0
    bare,           \* reference: an unwrapped copy of the inner value, driven
                    \*            directly by the same calls as the guard
    last,           \* history: the last operation, its inputs and its outcome
    trail           \* history kept by SpecTrail only: relocations and failed
                    \*          checks so far, and the first pinned operation

vars == <<alive, self_addr, inner, this_addr, first_pinned_mutably_accessed_at,
          panic_count, panic_msg, born_at, pin_calls, first_pin_addr, pinned_at,
          pin_failed, first_pin_loc, bare, last, trail>>

fields == <<inner, this_addr, first_pinned_mutably_accessed_at>>
history == <<born_at, pin_calls, first_pin_addr, pinned_at, pin_failed,
             first_pin_loc>>

\* ---------------------------------------------------------------- the code
\* thread::panicking(): a panic is in flight on the current thread.
panicking == panic_count > 0

\* The process was aborted by a panic raised while already panicking.
aborted == panic_count = 2

\* AssertUnmoved::addr: the address of the guard itself.
addr == self_addr

\* T::default() of the wrapped type.
DefaultInner == 0

\* Variant of new: the guard is marked as pinned, with a placeholder address.
new_marks_pinned(v) ==
    [inner |-> v, this_addr |-> MaxAddr, first_pinned_mutably_accessed_at |-> 0]

\* AssertUnmoved::new: no recorded address, no location.
new(v) ==
    [inner |-> v, this_addr |-> 0, first_pinned_mutably_accessed_at |-> 0]

\* From<T>::from: Self::new(inner).
from(v) == new(v)

\* Default::default: Self::new(T::default()).
default == new(DefaultInner)

\* Variants of get_pin_mut with one plausible slip each.
\* The address is recorded but never compared again.
get_pin_mut_never_compares(recorded, at, cur, l) ==
    IF recorded = 0
    THEN [this_addr |-> cur, at |-> l, panic |-> FALSE, msg |-> NoMsg]
    ELSE [this_addr |-> recorded, at |-> at, panic |-> FALSE, msg |-> NoMsg]

\* The comparison also runs on the first call, against the sentinel 0.
get_pin_mut_compares_first(recorded, at, cur, l) ==
    [this_addr |-> IF recorded = 0 THEN cur ELSE recorded,
     at |-> IF recorded = 0 THEN l ELSE at,
     panic |-> recorded # cur,
     msg |-> IF recorded # cur THEN MsgBetween ELSE NoMsg]

\* Any call after the first one fails, moved or not.
get_pin_mut_once_only(recorded, at, cur, l) ==
    IF recorded = 0
    THEN [this_addr |-> cur, at |-> l, panic |-> FALSE, msg |-> NoMsg]
    ELSE [this_addr |-> recorded, at |-> at, panic |-> TRUE, msg |-> MsgBetween]

\* A failed comparison records the new address before panicking.
get_pin_mut_rebases(recorded, at, cur, l) ==
    IF recorded = 0
    THEN [this_addr |-> cur, at |-> l, panic |-> FALSE, msg |-> NoMsg]
    ELSE [this_addr |-> cur, at |-> at, panic |-> recorded # cur,
          msg |-> IF recorded # cur THEN MsgBetween ELSE NoMsg]

\* A failed comparison clears the record, so the next call records afresh.
get_pin_mut_forgets_on_failure(recorded, at, cur, l) ==
    IF recorded = 0
    THEN [this_addr |-> cur, at |-> l, panic |-> FALSE, msg |-> NoMsg]
    ELSE [this_addr |-> IF recorded # cur THEN 0 ELSE recorded,
          at |-> IF recorded # cur THEN 0 ELSE at,
          panic |-> recorded # cur,
          msg |-> IF recorded # cur THEN MsgBetween ELSE NoMsg]

\* Every call records its own call site, not only the first.
get_pin_mut_rerecords_location(recorded, at, cur, l) ==
    IF recorded = 0
    THEN [this_addr |-> cur, at |-> l, panic |-> FALSE, msg |-> NoMsg]
    ELSE [this_addr |-> recorded, at |-> IF recorded # cur THEN at ELSE l,
          panic |-> recorded # cur,
          msg |-> IF recorded # cur THEN MsgBetween ELSE NoMsg]

\* The first call records where the guard was constructed, not where it is.
get_pin_mut_records_birthplace(recorded, at, cur, l) ==
    IF recorded = 0
    THEN [this_addr |-> born_at, at |-> l, panic |-> FALSE, msg |-> NoMsg]
    ELSE [this_addr |-> recorded, at |-> at, panic |-> recorded # cur,
          msg |-> IF recorded # cur THEN MsgBetween ELSE NoMsg]

\* The first call records the address but leaves the location None.
get_pin_mut_skips_location(recorded, at, cur, l) ==
    IF recorded = 0
    THEN [this_addr |-> cur, at |-> at, panic |-> FALSE, msg |-> NoMsg]
    ELSE [this_addr |-> recorded, at |-> at, panic |-> recorded # cur,
          msg |-> IF recorded # cur THEN MsgBetween ELSE NoMsg]

\* The guard notices that it has been away, even when it is back.
get_pin_mut_notices_excursion(recorded, at, cur, l) ==
    IF recorded = 0
    THEN [this_addr |-> cur, at |-> l, panic |-> FALSE, msg |-> NoMsg]
    ELSE [this_addr |-> recorded, at |-> at,
          panic |-> recorded # cur \/ trail.strayed,
          msg |-> IF recorded # cur \/ trail.strayed THEN MsgBetween ELSE NoMsg]

\* A failed comparison is reported once: the record then follows the guard.
get_pin_mut_reports_once(recorded, at, cur, l) ==
    IF recorded = 0
    THEN [this_addr |-> cur, at |-> l, panic |-> FALSE, msg |-> NoMsg]
    ELSE [this_addr |-> IF cur = trail.failed_at THEN cur ELSE recorded,
          at |-> at,
          panic |-> recorded # cur /\ cur # trail.failed_at,
          msg |-> IF recorded # cur /\ cur # trail.failed_at
                  THEN MsgBetween ELSE NoMsg]

\* AssertUnmoved::get_pin_mut, called from call site l with the guard at cur:
\* the fields after the call and whether the assert_eq! failed.
get_pin_mut(recorded, at, cur, l) ==
    IF recorded = 0
    THEN [this_addr |-> cur, at |-> l, panic |-> FALSE, msg |-> NoMsg]
    ELSE [this_addr |-> recorded, at |-> at, panic |-> recorded # cur,
          msg |-> IF recorded # cur THEN MsgBetween ELSE NoMsg]

\* Variants of get_mut: no check at all; failing on every pinned guard.
get_mut_unchecked(recorded, cur) == [panic |-> FALSE, msg |-> NoMsg]

get_mut_rejects_pinned(recorded, cur) ==
    [panic |-> recorded # 0, msg |-> IF recorded # 0 THEN MsgAfter ELSE NoMsg]

\* get_mut with drop's guard: no check while the thread is panicking.
get_mut_skips_when_panicking(recorded, cur) ==
    IF ~panicking /\ recorded # 0
    THEN [panic |-> recorded # cur,
          msg |-> IF recorded # cur THEN MsgAfter ELSE NoMsg]
    ELSE [panic |-> FALSE, msg |-> NoMsg]

\* AssertUnmoved::get_mut: checks only when an address has been recorded.
get_mut(recorded, cur) ==
    IF recorded # 0
    THEN [panic |-> recorded # cur,
          msg |-> IF recorded # cur THEN MsgAfter ELSE NoMsg]
    ELSE [panic |-> FALSE, msg |-> NoMsg]

\* Variant of get_ref's (absent) check: the check get_mut makes.
get_ref_check_like_get_mut(recorded, cur) ==
    [panic |-> recorded # 0 /\ recorded # cur,
     msg |-> IF recorded # 0 /\ recorded # cur THEN MsgAfter ELSE NoMsg]

\* AssertUnmoved::get_ref makes no check: it cannot panic.
get_ref_check(recorded, cur) == [panic |-> FALSE, msg |-> NoMsg]

\* AssertUnmoved::get_ref: returns &self.inner, nothing else.
get_ref(v) == v

\* Variants of drop: no check; no thread::panicking() test; no this_addr test.
drop_unchecked(isPanicking, recorded, cur) == [panic |-> FALSE, msg |-> NoMsg]

drop_ignores_panicking(isPanicking, recorded, cur) ==
    IF recorded # 0
    THEN [panic |-> recorded # cur,
          msg |-> IF recorded # cur THEN MsgDrop ELSE NoMsg]
    ELSE [panic |-> FALSE, msg |-> NoMsg]

drop_checks_unpinned(isPanicking, recorded, cur) ==
    IF ~isPanicking
    THEN [panic |-> recorded # cur,
          msg |-> IF recorded # cur THEN MsgDrop ELSE NoMsg]
    ELSE [panic |-> FALSE, msg |-> NoMsg]

\* Variant of drop: the comparison is missing, any pinned guard fails.
drop_rejects_pinned(isPanicking, recorded, cur) ==
    IF ~isPanicking /\ recorded # 0
    THEN [panic |-> TRUE, msg |-> MsgDrop]
    ELSE [panic |-> FALSE, msg |-> NoMsg]

\* PinnedDrop::drop: checks unless the thread is panicking or nothing recorded.
drop(isPanicking, recorded, cur) ==
    IF ~isPanicking /\ recorded # 0
    THEN [panic |-> recorded # cur,
          msg |-> IF recorded # cur THEN MsgDrop ELSE NoMsg]
    ELSE [panic |-> FALSE, msg |-> NoMsg]

\* The wrapped future F: Pending while polls are left, then Ready.
poll_inner(v) ==
    IF v = 0 THEN [ret |-> "Ready", inner |-> 0]
    ELSE [ret |-> "Pending", inner |-> v - 1]

\* The pinned methods the guard forwards, one or two of each adapter:
\* Future::poll, Stream::poll_next, Sink::poll_ready and ::start_send,
\* AsyncBufRead::consume. Every other forwarding method of the futures03 and
\* tokio adapters has the same body, self.get_pin_mut().m(..).
Methods == {"poll", "poll_next", "poll_ready", "start_send", "consume"}

\* Method m of the wrapped value: start_send queues one more unit of work,
\* consume and the poll_* methods work one unit off.
inner_call(m, v) ==
    IF m = "start_send"
    THEN [ret |-> "Ok", inner |-> IF v < MaxInner THEN v + 1 ELSE v]
    ELSE IF m = "consume"
    THEN [ret |-> "Unit", inner |-> IF v = 0 THEN 0 ELSE v - 1]
    ELSE poll_inner(v)

\* Variants of a forwarding method: the inner value is reached without
\* get_pin_mut; the inner method is called twice.
forward_unchecked(m, recorded, at, cur, l, v) ==
    [pin |-> [this_addr |-> recorded, at |-> at, panic |-> FALSE, msg |-> NoMsg],
     validations |-> 0, delegated |-> TRUE,
     inner |-> inner_call(m, v).inner, ret |-> inner_call(m, v).ret]

forward_calls_twice(m, recorded, at, cur, l, v) ==
    LET res == get_pin_mut(recorded, at, cur, l)
        r == inner_call(m, inner_call(m, v).inner)
    IN [pin |-> res, validations |-> 1, delegated |-> ~res.panic,
        inner |-> IF res.panic THEN v ELSE r.inner,
        ret |-> IF res.panic THEN "none" ELSE r.ret]

\* Variant with one record per method: a method other than the one that fixed
\* the guard finds its own record empty, and passes.
forward_own_record(m, recorded, at, cur, l, v) ==
    LET res == IF recorded = 0 \/ m = trail.first_op
               THEN get_pin_mut(recorded, at, cur, l)
               ELSE [this_addr |-> recorded, at |-> at,
                     panic |-> FALSE, msg |-> NoMsg]
        r == inner_call(m, v)
    IN [pin |-> res, validations |-> 1, delegated |-> ~res.panic,
        inner |-> IF res.panic THEN v ELSE r.inner,
        ret |-> IF res.panic THEN "none" ELSE r.ret]

\* A forwarding method, self.get_pin_mut().m(..): one get_pin_mut call, then
\* method m on the Pin<&mut T> it returned; a panic in get_pin_mut leaves.
forward(m, recorded, at, cur, l, v) ==
    LET res == get_pin_mut(recorded, at, cur, l)
        r == inner_call(m, v)
    IN [pin |-> res, validations |-> 1, delegated |-> ~res.panic,
        inner |-> IF res.panic THEN v ELSE r.inner,
        ret |-> IF res.panic THEN "none" ELSE r.ret]

\* The read-only queries the guard forwards: FusedFuture/FusedStream::
\* is_terminated, Stream::size_hint, tokio1 AsyncWrite::is_write_vectored.
\* tokio02 AsyncRead::prepare_uninitialized_buffer has the same body,
\* self.get_ref().q(..).
Queries == {"is_terminated", "size_hint", "is_write_vectored"}

\* Query q of the wrapped value: an answer that depends on its state only.
query_inner(q, v) ==
    IF q = "is_terminated" THEN (IF v = 0 THEN "true" ELSE "false")
    ELSE IF q = "size_hint" THEN (IF v = 0 THEN "(0, Some(0))" ELSE "(1, None)")
    ELSE "false"

\* Variant of a forwarded query: the inner value is reached through
\* get_pin_mut, as in the pinned methods.
query_through_get_pin_mut(q, recorded, at, cur, v) ==
    LET res == get_pin_mut(recorded, at, cur, 1)
    IN [pin |-> res, validations |-> 1,
        ret |-> IF res.panic THEN "none" ELSE query_inner(q, get_ref(v))]

\* A forwarded query, self.get_ref().q(..): the fields are only read.
query(q, recorded, at, cur, v) ==
    LET res == get_ref_check(recorded, cur)
    IN [pin |-> [this_addr |-> recorded, at |-> at,
                 panic |-> res.panic, msg |-> res.msg],
        validations |-> 0,
        ret |-> IF res.panic THEN "none" ELSE query_inner(q, get_ref(v))]

\* Option::unwrap on the location, for the message: -1 stands for the panic
\* of unwrap on None.
unwrap(at) == IF at = 0 THEN -1 ELSE at

\* The location an assertion message carries (0: no message).
message_location(isPanic, at) == IF isPanic THEN unwrap(at) ELSE 0

\* A panic raised with pc panics in flight: the second one aborts the process.
raise(pc, isPanic) == IF isPanic THEN pc + 1 ELSE pc

\* The message the thread is unwinding with: that of the first panic.
payload(pc, held, res) == IF res.panic /\ pc = 0 THEN res.msg ELSE held

\* An unrelated panic's message.
MsgOther == "explicit panic"

\* What every operation records about itself in `last`.
Outcome(op, res, l, ret, val) ==
    [op |-> op,
     panic |-> res.panic, msg |-> res.msg,
     at |-> self_addr,                    \* the guard's address at the call
     recorded |-> this_addr,              \* this_addr before the call
     loc_before |-> first_pinned_mutably_accessed_at,
     panicking |-> panicking,             \* thread::panicking() before
     pinned_at |-> pinned_at,             \* history before the call
     first_pin_addr |-> first_pin_addr,
     n |-> pin_calls,                     \* get_pin_mut calls before this one
     caller |-> l,
     ret |-> ret,                         \* what the inner operation returned
     val |-> val,                         \* the inner value handed out, or -1
     validations |-> 0,                   \* get_pin_mut calls made by the call
     delegated |-> FALSE,                 \* the inner method was called
     inner_before |-> inner,              \* inner before the call
     bare_ret |-> "none",                 \* what the unwrapped copy returned
     msg_loc |-> message_location(res.panic, first_pinned_mutably_accessed_at)]

NoPanic == [panic |-> FALSE, msg |-> NoMsg]

Bump(n) == IF n < MaxCalls THEN n + 1 ELSE n

\* ---------------------------------------------------------------- actions
Running == alive /\ ~aborted

\* The history kept by a get_pin_mut call with result res.
PinHistory(res) ==
    /\ pin_calls' = Bump(pin_calls)
    /\ first_pin_addr' = IF pin_calls = 0 THEN self_addr ELSE first_pin_addr
    /\ pinned_at' = IF res.panic THEN pinned_at ELSE self_addr
    /\ pin_failed' = (pin_failed \/ res.panic)
    /\ UNCHANGED born_at

\* guard.get_pin_mut() called from call site l.
Call_get_pin_mut(l) ==
    /\ Running
    /\ LET res == get_pin_mut(this_addr, first_pinned_mutably_accessed_at, addr, l)
       IN /\ this_addr' = res.this_addr
          /\ first_pinned_mutably_accessed_at' = res.at
          /\ panic_count' = raise(panic_count, res.panic)
          /\ panic_msg' = payload(panic_count, panic_msg, res)
          /\ PinHistory(res)
          /\ last' = [Outcome("get_pin_mut", res, l, "none", -1)
                         EXCEPT !.validations = 1]
    /\ first_pin_loc' = IF pin_calls = 0 THEN l ELSE first_pin_loc
    /\ UNCHANGED <<alive, self_addr, inner, bare>>

\* A forwarded pinned method m called on the guard from call site l; the
\* unwrapped copy gets the same call directly.
Call_forward(m, l) ==
    /\ Running
    /\ LET f == forward(m, this_addr, first_pinned_mutably_accessed_at, addr, l,
                        inner)
           b == inner_call(m, bare)
       IN /\ this_addr' = f.pin.this_addr
          /\ first_pinned_mutably_accessed_at' = f.pin.at
          /\ panic_count' = raise(panic_count, f.pin.panic)
          /\ panic_msg' = payload(panic_count, panic_msg, f.pin)
          /\ PinHistory(f.pin)
          /\ inner' = f.inner
          /\ bare' = b.inner
          /\ last' = [Outcome(m, f.pin, l, f.ret, -1)
                         EXCEPT !.validations = f.validations,
                                !.delegated = f.delegated,
                                !.bare_ret = b.ret]
    /\ first_pin_loc' = IF pin_calls = 0 THEN l ELSE first_pin_loc
    /\ UNCHANGED <<alive, self_addr>>

\* Future::poll on the guard: self.get_pin_mut().poll(cx).
Call_poll(l) == Call_forward("poll", l)

\* get_mut that, like get_pin_mut, records the address when none is recorded.
Call_get_mut_records(v) ==
    /\ Running
    /\ LET res == get_mut(this_addr, addr)
       IN /\ panic_count' = raise(panic_count, res.panic)
          /\ panic_msg' = payload(panic_count, panic_msg, res)
          /\ inner' = IF res.panic THEN inner ELSE v
          /\ bare' = IF res.panic THEN bare ELSE v
          /\ last' = Outcome("get_mut", res, 0, "none", -1)
    /\ this_addr' = IF this_addr = 0 THEN addr ELSE this_addr
    /\ UNCHANGED <<alive, self_addr, first_pinned_mutably_accessed_at, history>>

\* guard.get_mut(), the caller then storing v through the returned reference.
Call_get_mut(v) ==
    /\ Running
    /\ LET res == get_mut(this_addr, addr)
       IN /\ panic_count' = raise(panic_count, res.panic)
          /\ panic_msg' = payload(panic_count, panic_msg, res)
          /\ inner' = IF res.panic THEN inner ELSE v
          /\ bare' = IF res.panic THEN bare ELSE v
          /\ last' = Outcome("get_mut", res, 0, "none", -1)
    /\ UNCHANGED <<alive, self_addr, this_addr,
                   first_pinned_mutably_accessed_at, history>>

\* guard.get_ref() / *guard.
Call_get_ref ==
    /\ Running
    /\ LET res == get_ref_check(this_addr, addr)
       IN /\ panic_count' = raise(panic_count, res.panic)
          /\ panic_msg' = payload(panic_count, panic_msg, res)
          /\ last' = Outcome("get_ref", res, 0,
                             IF res.panic THEN "none" ELSE "ref",
                             IF res.panic THEN -1 ELSE get_ref(inner))
    /\ UNCHANGED <<alive, self_addr, fields, history, bare>>

\* A forwarded read-only query q called on the guard.
Call_query(q) ==
    /\ Running
    /\ LET f == query(q, this_addr, first_pinned_mutably_accessed_at, addr, inner)
       IN /\ this_addr' = f.pin.this_addr
          /\ first_pinned_mutably_accessed_at' = f.pin.at
          /\ panic_count' = raise(panic_count, f.pin.panic)
          /\ panic_msg' = payload(panic_count, panic_msg, f.pin)
          /\ last' = [Outcome(q, f.pin, 0, f.ret, -1)
                         EXCEPT !.validations = f.validations]
    /\ UNCHANGED <<alive, self_addr, inner, history, bare>>

\* The guard is moved to another address (Box::new(guard), Option::take, ...):
\* a bitwise copy of all of its fields.
Move(a) ==
    /\ Running
    /\ a # self_addr
    /\ self_addr' = a
    /\ last' = Outcome("move", NoPanic, 0, "none", -1)
    /\ UNCHANGED <<alive, fields, panic_count, panic_msg, history, bare>>

\* The guard goes out of scope (or is unwound over): PinnedDrop::drop runs.
Call_drop ==
    /\ Running
    /\ LET res == drop(panicking, this_addr, addr)
       IN /\ panic_count' = raise(panic_count, res.panic)
          /\ panic_msg' = payload(panic_count, panic_msg, res)
          /\ last' = Outcome("drop", res, 0, "none", -1)
    /\ alive' = FALSE
    /\ UNCHANGED <<self_addr, fields, history, bare>>

\* An unrelated panic starts on the thread while the guard is alive.
ExternalPanic ==
    /\ Running
    /\ panic_count = 0
    /\ panic_count' = 1
    /\ panic_msg' = MsgOther
    /\ last' = Outcome("external_panic", NoPanic, 0, "none", -1)
    /\ UNCHANGED <<alive, self_addr, fields, history, bare>>

\* The panic in flight is caught (catch_unwind, or the test harness).
CatchUnwind ==
    /\ panic_count = 1
    /\ panic_count' = 0
    /\ panic_msg' = NoMsg
    /\ last' = Outcome("catch_unwind", NoPanic, 0, "none", -1)
    /\ UNCHANGED <<alive, self_addr, fields, history, bare>>

\* A constructor called once the previous guard is gone: the guard g it
\* returns, built from value v, lives at address a.
Construct(op, g, v, a) ==
    /\ ~alive /\ ~aborted
    /\ alive' = TRUE
    /\ self_addr' = a
    /\ inner' = g.inner
    /\ this_addr' = g.this_addr
    /\ first_pinned_mutably_accessed_at' = g.first_pinned_mutably_accessed_at
    /\ born_at' = a
    /\ pin_calls' = 0
    /\ first_pin_addr' = 0
    /\ pinned_at' = 0
    /\ pin_failed' = FALSE
    /\ first_pin_loc' = 0
    /\ bare' = v
    /\ last' = [Outcome(op, NoPanic, 0, "none", v) EXCEPT
                  !.at = a, !.recorded = 0, !.loc_before = 0,
                  !.pinned_at = 0, !.first_pin_addr = 0, !.n = 0,
                  !.inner_before = v]
    /\ UNCHANGED <<panic_count, panic_msg>>

\* AssertUnmoved::new(v), the new guard living at address a.
Call_new(v, a) == Construct("new", new(v), v, a)

\* AssertUnmoved::from(v).
Call_from(v, a) == Construct("from", from(v), v, a)

\* AssertUnmoved::default().
Call_default(a) == Construct("default", default, DefaultInner, a)

\* The trail of a guard nothing has happened to.
NoTrail ==
    [first_op |-> "none", strayed |-> FALSE, strayed_before |-> FALSE,
     failed_at |-> 0, failed_before |-> 0]

\* The trail after the step that has just set last', as SpecTrail keeps it:
\* strayed, that the guard has been away from its first pinned address since
\* the last checked operation; failed_at, the address where a get_pin_mut or
\* get_mut check last failed; the _before fields, what the last checked
\* operation started from.
Track ==
    LET op == last'.op
        checked == op \in {"get_pin_mut", "get_mut", "drop"} \cup Methods
        guarded == checked /\ op # "drop"
    IN trail' =
        [trail EXCEPT
         !.strayed = IF op = "move"
                     THEN trail.strayed
                          \/ (first_pin_addr # 0 /\ self_addr' # first_pin_addr)
                     ELSE IF checked THEN FALSE ELSE trail.strayed,
         !.strayed_before = checked /\ trail.strayed,
         !.failed_at = IF guarded /\ last'.panic THEN self_addr
                       ELSE trail.failed_at,
         !.failed_before = IF guarded THEN trail.failed_at ELSE 0]

\* The trail as SpecShared keeps it: first_op, the operation that made the
\* guard's first get_pin_mut call.
TrackFirst ==
    trail' = [trail EXCEPT
              !.first_op = IF pin_calls = 0 /\ pin_calls' > 0
                           THEN last'.op ELSE trail.first_op]

Init ==
    /\ alive = TRUE
    /\ self_addr \in Addrs
    /\ inner \in Inners
    /\ this_addr = 0
    /\ first_pinned_mutably_accessed_at = 0
    /\ panic_count = 0
    /\ panic_msg = NoMsg
    /\ born_at = self_addr
    /\ pin_calls = 0
    /\ first_pin_addr = 0
    /\ pinned_at = 0
    /\ pin_failed = FALSE
    /\ first_pin_loc = 0
    /\ bare = inner
    /\ trail = NoTrail
    /\ last = [op |-> "new", panic |-> FALSE, msg |-> NoMsg, at |-> self_addr,
               recorded |-> 0, loc_before |-> 0, panicking |-> FALSE,
               pinned_at |-> 0, first_pin_addr |-> 0, n |-> 0, caller |-> 0,
               ret |-> "none", val |-> inner, validations |-> 0,
               delegated |-> FALSE, inner_before |-> inner,
               bare_ret |-> "none", msg_loc |-> 0]

Next ==
    \/ (\E l \in Locs : Call_get_pin_mut(l)) /\ UNCHANGED trail
    \/ (\E l \in Locs : Call_poll(l)) /\ UNCHANGED trail
    \/ (\E m \in Methods \ {"poll"}, l \in Locs : Call_forward(m, l)) /\ UNCHANGED trail
    \/ (\E v \in Inners : Call_get_mut(v)) /\ UNCHANGED trail
    \/ (Call_get_ref) /\ UNCHANGED trail
    \/ (\E q \in Queries : Call_query(q)) /\ UNCHANGED trail
    \/ (\E a \in Addrs : Move(a)) /\ UNCHANGED trail
    \/ (Call_drop) /\ UNCHANGED trail
    \/ (ExternalPanic) /\ UNCHANGED trail
    \/ (CatchUnwind) /\ UNCHANGED trail
    \/ (\E v \in Inners, a \in Addrs : Call_new(v, a)) /\ UNCHANGED trail
    \/ (\E v \in Inners, a \in Addrs : Call_from(v, a)) /\ UNCHANGED trail
    \/ (\E a \in Addrs : Call_default(a)) /\ UNCHANGED trail

Spec == Init /\ [][Next]_vars

\* One guard from construction to drop, reached directly or as a future,
\* with the trail kept.
NextTrail ==
    \/ (\E l \in Locs : Call_get_pin_mut(l)) /\ Track
    \/ (\E l \in Locs : Call_poll(l)) /\ Track
    \/ (\E v \in Inners : Call_get_mut(v)) /\ Track
    \/ (\E a \in Addrs : Move(a)) /\ Track
    \/ (Call_drop) /\ Track
    \/ (CatchUnwind) /\ Track

SpecTrail == Init /\ [][NextTrail]_vars

\* The capabilities of one guard used side by side (Sink, Future, the direct
\* accessors), with the first pinned operation kept.
NextShared ==
    \/ (\E l \in Locs : Call_get_pin_mut(l)) /\ TrackFirst
    \/ (\E l \in Locs : Call_poll(l)) /\ TrackFirst
    \/ (\E m \in {"poll_ready", "start_send"}, l \in Locs : Call_forward(m, l))
       /\ TrackFirst
    \/ (\E v \in Inners : Call_get_mut(v)) /\ TrackFirst
    \/ (\E a \in Addrs : Move(a)) /\ TrackFirst
    \/ (CatchUnwind) /\ TrackFirst

SpecShared == Init /\ [][NextShared]_vars

TypeOK ==
    /\ alive \in BOOLEAN
    /\ self_addr \in Addrs
    /\ inner \in Inners
    /\ this_addr \in {0} \cup Addrs
    /\ first_pinned_mutably_accessed_at \in {0} \cup Locs
    /\ panic_count \in 0..2
    /\ pin_calls \in 0..MaxCalls
    /\ bare \in Inners
    /\ first_pin_loc \in {0} \cup Locs
    /\ panic_msg \in {NoMsg, MsgBetween, MsgAfter, MsgDrop, MsgOther}
    /\ trail.first_op \in {"none", "get_pin_mut"} \cup Methods
    /\ trail.strayed \in BOOLEAN /\ trail.strayed_before \in BOOLEAN
    /\ trail.failed_at \in {0} \cup Addrs
    /\ trail.failed_before \in {0} \cup Addrs

\* ---------------------------------------------------------------- claims
\* The operations that go through get_pin_mut.
PinOps == {"get_pin_mut"} \cup Methods

\* The operations that make a new guard.
Constructors == {"new", "from", "default"}

\* C1: a get_pin_mut call (direct or through poll) made with the guard at an
\* address other than the one at which the previous get_pin_mut call returned
\* access panics with "AssertUnmoved moved between get_pin_mut calls", and a
\* forwarded poll does not reach the inner future.
C1_MovedBetweenPinCallsPanics ==
    (last.op \in PinOps /\ last.pinned_at # 0 /\ last.at # last.pinned_at)
        => (last.panic /\ last.msg = MsgBetween /\ last.ret = "none")

C1_Witness ==
    /\ last.op = "poll" /\ last.ret = "none"
    /\ last.pinned_at # 0 /\ last.at # last.pinned_at
    /\ panic_count = 1 /\ panic_msg = MsgBetween

\* C2: a guard that is dropped, with no panic in flight, at an address other
\* than the one at which its last get_pin_mut call returned access panics in
\* drop with "AssertUnmoved moved before drop".
C2_MovedBeforeDropPanics ==
    (last.op = "drop" /\ ~last.panicking
        /\ last.pinned_at # 0 /\ last.at # last.pinned_at)
        => (last.panic /\ last.msg = MsgDrop /\ panic_msg = MsgDrop)

C2_Witness ==
    /\ last.op = "drop" /\ ~last.panicking /\ ~alive
    /\ last.pinned_at # 0 /\ last.at # last.pinned_at
    /\ panic_count = 1 /\ panic_msg = MsgDrop

\* C3: dropping a pinned guard while the thread is panicking raises nothing,
\* whatever the guard's address: the panic in flight stays the only one and
\* the process is not aborted.
C3_NoDoublePanic ==
    (last.op = "drop" /\ last.panicking /\ last.first_pin_addr # 0)
        => (~last.panic /\ last.msg = NoMsg /\ panic_count = 1 /\ ~aborted)

C3_Witness ==
    /\ last.op = "drop" /\ last.panicking /\ ~alive
    /\ last.first_pin_addr # 0 /\ last.at # last.first_pin_addr
    /\ panic_msg = MsgBetween /\ panic_count = 1

\* C4: as long as get_pin_mut was never called on the guard (directly or
\* through poll), no operation on it panics, drop included, wherever the
\* guard has been moved to, and nothing is recorded.
C4_NoFalsePositiveBeforePin ==
    pin_calls = 0 =>
        (~last.panic /\ last.msg = NoMsg /\ this_addr = 0)

C4_Witness ==
    /\ last.op = "drop" /\ ~alive /\ pin_calls = 0
    /\ ~last.panicking /\ last.at # born_at /\ panic_count = 0

\* C5: the first get_pin_mut call on a guard never panics, wherever the guard
\* is and however it was moved or accessed before.
C5_FirstPinAccessIsFree ==
    (last.op \in PinOps /\ last.n = 0) => (~last.panic /\ pinned_at = last.at)

C5_Witness ==
    /\ last.op = "get_pin_mut" /\ last.n = 0
    /\ last.at # born_at /\ ~last.panic /\ ~last.panicking

\* C6: a get_pin_mut call made with the guard at the address at which the
\* previous get_pin_mut call returned access does not panic, and a forwarded
\* poll reaches the inner future.
C6_UnmovedPinAccessSucceeds ==
    (last.op \in PinOps /\ last.pinned_at # 0 /\ last.at = last.pinned_at)
        => (~last.panic /\ (last.op = "poll" => last.ret \in {"Pending", "Ready"}))

C6_Witness ==
    /\ last.op = "poll" /\ last.n = 1
    /\ last.pinned_at # 0 /\ last.at = last.pinned_at
    /\ last.ret = "Pending" /\ panic_count = 0

\* C7: every get_pin_mut call after the first panics exactly when the guard's
\* address differs from its address at the first call, whether or not the
\* calls in between panicked.
C7_EveryPinCallRevalidates ==
    (last.op \in PinOps /\ last.n >= 1)
        => (last.panic <=> last.at # last.first_pin_addr)

C7_Witness ==
    /\ last.op \in PinOps /\ last.n >= 2 /\ pin_failed
    /\ ~last.panic /\ last.at = last.first_pin_addr

C7_WitnessLaterFailure ==
    /\ last.op \in PinOps /\ last.n >= 2 /\ last.panic
    /\ last.pinned_at = last.first_pin_addr /\ last.at # last.first_pin_addr

\* C8: get_mut panics, with "AssertUnmoved moved after get_pin_mut call",
\* exactly when get_pin_mut has been called on the guard and the guard's
\* address differs from the one it had at the first such call.
C8_GetMutChecksAddress ==
    last.op = "get_mut" =>
        /\ last.panic <=> (last.first_pin_addr # 0 /\ last.at # last.first_pin_addr)
        /\ last.msg = (IF last.panic THEN MsgAfter ELSE NoMsg)

C8_Witness ==
    /\ last.op = "get_mut" /\ last.panic /\ last.msg = MsgAfter
    /\ last.first_pin_addr # 0 /\ last.at # last.first_pin_addr

\* C9 as stated: get_mut panics whenever a get_pin_mut call has succeeded on
\* the guard before.
C9_GetMutPanicsWheneverFixed ==
    (last.op = "get_mut" /\ last.pinned_at # 0) => last.panic

\* C9 as amended: after a get_pin_mut call has succeeded, get_mut panics when
\* the guard has left the address of that call, and returns the mutable
\* reference when it has not.
C9_GetMutOnFixedGuard ==
    (last.op = "get_mut" /\ last.pinned_at # 0)
        => IF last.at # last.pinned_at THEN last.panic ELSE ~last.panic

C9_Witness ==
    /\ last.op = "get_mut" /\ last.pinned_at # 0
    /\ last.at = last.pinned_at /\ ~last.panic /\ panic_count = 0

\* C10: get_ref never panics, whatever the state and the address of the
\* guard, and leaves this_addr and first_pinned_mutably_accessed_at as they
\* were; it hands out the inner value.
C10_GetRefAlwaysPermitted ==
    last.op = "get_ref" =>
        /\ ~last.panic /\ last.val = inner
        /\ this_addr = last.recorded
        /\ first_pinned_mutably_accessed_at = last.loc_before
        /\ panicking = last.panicking /\ ~aborted

C10_Witness ==
    /\ last.op = "get_ref" /\ ~last.panic
    /\ last.recorded # 0 /\ last.at # last.recorded /\ ~last.panicking

\* C11: the guard goes from Unfixed (this_addr = 0) to Fixed exactly in its
\* first get_pin_mut call, and once it is Fixed no step on the same guard
\* (get_pin_mut returning or panicking, poll, get_mut, get_ref, a move, a
\* panic, drop) changes this_addr or first_pinned_mutably_accessed_at.
C11_OneWayFixing ==
    [][last'.op \notin Constructors =>
        /\ this_addr # 0 =>
              /\ this_addr' = this_addr
              /\ first_pinned_mutably_accessed_at' = first_pinned_mutably_accessed_at
        /\ (this_addr = 0 /\ this_addr' # 0)
              <=> (last'.op \in PinOps /\ pin_calls = 0)]_vars

C11_Witness ==
    /\ last.op \in PinOps /\ last.panic /\ last.n >= 1
    /\ this_addr # 0 /\ this_addr = last.recorded /\ this_addr # self_addr
    /\ first_pinned_mutably_accessed_at = last.loc_before
    /\ last.caller # first_pinned_mutably_accessed_at

\* C12: a forwarded pinned method makes exactly one get_pin_mut call and
\* fails exactly when that call's address check fails; when it fails the
\* inner method is not called (the inner value is untouched and nothing is
\* returned), and when it passes the inner method is called.
C12_ForwardValidatesOnceThenDelegates ==
    last.op \in Methods =>
        /\ last.validations = 1
        /\ last.panic <=> (last.first_pin_addr # 0 /\ last.at # last.first_pin_addr)
        /\ last.panic =>
              (~last.delegated /\ inner = last.inner_before /\ last.ret = "none")
        /\ ~last.panic =>
              (last.delegated /\ last.ret = inner_call(last.op, last.inner_before).ret
                 /\ inner = inner_call(last.op, last.inner_before).inner)

C12_Witness ==
    /\ last.op = "start_send" /\ last.panic /\ last.msg = MsgBetween
    /\ ~last.delegated /\ inner = last.inner_before /\ last.inner_before < MaxInner

C12_WitnessDelegated ==
    /\ last.op = "poll_next" /\ ~last.panic /\ last.n >= 1
    /\ last.delegated /\ last.ret = "Pending"

\* C13: as long as no get_pin_mut call on the guard has failed (the guard was
\* not moved after being pinned), every forwarded method returns what the
\* same method returns on the unwrapped copy, and the guard's inner value
\* equals the unwrapped copy.
C13_CapabilityTransparency ==
    ~pin_failed =>
        /\ inner = bare
        /\ last.op \in Methods => (~last.panic /\ last.ret = last.bare_ret)

C13_Witness ==
    /\ last.op = "poll" /\ last.n >= 2 /\ ~pin_failed
    /\ last.ret = "Ready" /\ last.bare_ret = "Ready" /\ last.inner_before = 0
    /\ self_addr # born_at

\* The operations that compare the guard's address with the recorded one.
CheckedOps == PinOps \cup {"get_mut", "drop"}

\* C14: get_pin_mut, a forwarded pinned method, get_mut or drop, run on a
\* guard that has been pinned and is no longer at the address of its first
\* get_pin_mut call, panics, except drop run while the thread is panicking;
\* get_pin_mut and get_mut panic also while the thread is panicking.
C14_NoSilentDowngrade ==
    (last.op \in CheckedOps /\ last.first_pin_addr # 0
        /\ last.at # last.first_pin_addr)
        => (last.panic <=> ~(last.op = "drop" /\ last.panicking))

C14_Witness ==
    /\ last.op = "get_mut" /\ last.panicking /\ last.panic
    /\ last.first_pin_addr # 0 /\ last.at # last.first_pin_addr
    /\ aborted

C14_WitnessPin ==
    /\ last.op \in PinOps /\ last.panicking /\ last.panic /\ aborted

\* The message each operation's assertion carries.
MessageOf(op) ==
    CASE op \in PinOps -> MsgBetween
      [] op = "get_mut" -> MsgAfter
      [] op = "drop" -> MsgDrop
      [] OTHER -> NoMsg

\* C15: an operation that panics reports the message of its own assertion
\* ("moved between get_pin_mut calls" for get_pin_mut and the forwarded
\* methods, "moved after get_pin_mut call" for get_mut, "moved before drop"
\* for drop) together with the call site of the guard's first get_pin_mut
\* call.
C15_MessageNamesOperationAndLocation ==
    last.panic =>
        /\ last.msg = MessageOf(last.op) /\ last.msg # NoMsg
        /\ last.msg_loc = first_pin_loc /\ last.msg_loc \in Locs

C15_Witness ==
    /\ last.op = "poll_ready" /\ last.panic /\ last.msg = MsgBetween
    /\ last.msg_loc = first_pin_loc /\ last.caller # first_pin_loc
    /\ last.n >= 2

C15_WitnessDrop ==
    /\ last.op = "drop" /\ last.panic /\ last.msg = MsgDrop
    /\ last.msg_loc = first_pin_loc /\ first_pin_loc # 0

\* C16: new(v), from(v) and default() never panic and return a guard with no
\* recorded address, no location and inner equal to v (T::default() for
\* default): from and default build exactly what new builds.
C16_ConstructionYieldsUnfixed ==
    last.op \in Constructors =>
        /\ alive /\ ~last.panic /\ panicking = last.panicking
        /\ this_addr = 0 /\ first_pinned_mutably_accessed_at = 0
        /\ inner = last.val
        /\ last.op = "default" => inner = DefaultInner
        /\ <<inner, this_addr, first_pinned_mutably_accessed_at>>
              = <<new(last.val).inner, new(last.val).this_addr,
                  new(last.val).first_pinned_mutably_accessed_at>>

C16_Witness ==
    /\ last.op = "from" /\ last.val # DefaultInner /\ inner = last.val
    /\ alive /\ this_addr = 0 /\ first_pinned_mutably_accessed_at = 0

C16_WitnessDefault ==
    /\ last.op = "default" /\ alive /\ inner = DefaultInner /\ this_addr = 0

\* C19: the first get_pin_mut call on a guard records the address the guard
\* has at that call and the call site of that call, whatever the address at
\* construction or at earlier get_ref/get_mut calls was.
C19_FirstPinRecordsCurrentAddress ==
    (last.op \in PinOps /\ last.n = 0) =>
        /\ last.recorded = 0
        /\ this_addr = last.at
        /\ first_pinned_mutably_accessed_at = last.caller
        /\ last.caller \in Locs

C19_Witness ==
    /\ last.op \in PinOps /\ last.n = 0
    /\ last.at # born_at /\ this_addr = last.at /\ this_addr # born_at

\* C20: get_mut records nothing: this_addr and
\* first_pinned_mutably_accessed_at are after the call what they were before,
\* on an Unfixed guard (which stays Unfixed) and on a Fixed one, and the call
\* does not count as a pinned access.
C20_GetMutRecordsNothing ==
    last.op = "get_mut" =>
        /\ this_addr = last.recorded
        /\ first_pinned_mutably_accessed_at = last.loc_before
        /\ pin_calls = last.n
        /\ last.recorded = 0 => this_addr = 0

C20_Witness ==
    /\ last.op = "get_mut" /\ last.recorded = 0 /\ this_addr = 0
    /\ ~last.panic /\ inner # last.inner_before /\ self_addr # born_at

C20_WitnessFixed ==
    /\ last.op = "get_mut" /\ last.recorded # 0 /\ this_addr = last.recorded
    /\ ~last.panic /\ inner # last.inner_before

\* C21: in every state the recorded address is non-zero exactly when the
\* first-access location is present, so the unwrap() of the location in the
\* message of a failing get_pin_mut, get_mut or drop never meets None.
C21_AddressAndLocationSetTogether ==
    /\ (this_addr # 0) <=> (first_pinned_mutably_accessed_at # 0)
    /\ (last.recorded # 0) <=> (last.loc_before # 0)
    /\ last.panic => unwrap(last.loc_before) # -1 /\ last.msg_loc # -1

C21_Witness ==
    /\ last.op = "get_mut" /\ last.panic
    /\ this_addr # 0 /\ first_pinned_mutably_accessed_at # 0
    /\ last.msg_loc = first_pinned_mutably_accessed_at

C21_WitnessUnfixed ==
    /\ last.op = "get_mut" /\ ~last.panic
    /\ this_addr = 0 /\ first_pinned_mutably_accessed_at = 0

\* C24: drop panics exactly when the thread is not panicking, the guard is
\* Fixed and its address differs from the recorded one; in particular the
\* drop of a Fixed guard that is where it was recorded never panics,
\* panicking thread or not.
C24_DropPanicsIffFixedAndMoved ==
    last.op = "drop" =>
        /\ last.panic <=> /\ ~last.panicking
                          /\ last.first_pin_addr # 0
                          /\ last.at # last.first_pin_addr
        /\ last.first_pin_addr = last.recorded

C24_Witness ==
    /\ last.op = "drop" /\ ~last.panic /\ ~last.panicking
    /\ last.recorded # 0 /\ last.at = last.recorded

C24_WitnessPanicking ==
    /\ last.op = "drop" /\ ~last.panic /\ last.panicking
    /\ last.recorded # 0 /\ last.at = last.recorded

\* C25: a forwarded read-only query makes no get_pin_mut call, never panics,
\* wherever the guard is, changes no field (an Unfixed guard stays Unfixed)
\* and answers what the wrapped value answers.
C25_QueriesOnlyRead ==
    last.op \in Queries =>
        /\ ~last.panic /\ last.validations = 0
        /\ this_addr = last.recorded
        /\ first_pinned_mutably_accessed_at = last.loc_before
        /\ pin_calls = last.n /\ inner = last.inner_before
        /\ last.ret = query_inner(last.op, inner)

C25_Witness ==
    /\ last.op = "size_hint" /\ ~last.panic
    /\ last.recorded # 0 /\ last.at # last.recorded

C25_WitnessUnfixed ==
    /\ last.op = "is_terminated" /\ this_addr = 0 /\ last.at # born_at

\* C22: a get_pin_mut or get_mut call that panics changes no field, so the
\* recorded address is still that of the first pinned access; a later
\* get_pin_mut or get_mut call made where such a check has already failed
\* panics again: the record never follows the guard.
C22_FailedCheckChangesNothing ==
    last.op \in PinOps \cup {"get_mut"} =>
        /\ last.panic =>
              /\ this_addr = last.recorded /\ this_addr = first_pin_addr
              /\ first_pinned_mutably_accessed_at = last.loc_before
              /\ inner = last.inner_before
              /\ trail.failed_at = last.at
        /\ (trail.failed_before # 0 /\ last.at = trail.failed_before) =>
              last.panic /\ this_addr = first_pin_addr

C22_Witness ==
    /\ last.op = "get_pin_mut" /\ last.panic
    /\ trail.failed_before = last.at /\ panic_count = 1

C22_WitnessGetMut ==
    /\ last.op = "get_mut" /\ last.panic
    /\ trail.failed_before = last.at /\ panic_count = 1

\* C23: only the address at the moment of a checked operation counts: a
\* Fixed guard that has been away from its recorded address and is back there
\* when get_pin_mut, get_mut or drop runs passes, with no message.
C23_BackInPlacePasses ==
    (/\ last.op \in CheckedOps
     /\ trail.strayed_before
     /\ last.at = last.first_pin_addr) =>
        /\ ~last.panic /\ last.msg = NoMsg
        /\ this_addr = last.at

C23_Witness ==
    /\ last.op = "get_pin_mut" /\ trail.strayed_before
    /\ last.at = last.recorded /\ ~last.panic /\ trail.failed_at = 0

C23_WitnessDrop ==
    /\ last.op = "drop" /\ trail.strayed_before /\ ~last.panicking
    /\ last.at = last.recorded /\ ~last.panic /\ trail.failed_at = 0

C23_WitnessGetMut ==
    /\ last.op = "get_mut" /\ trail.strayed_before
    /\ last.at = last.recorded /\ ~last.panic /\ trail.failed_at = 0

\* C26: the guard has one recorded address for all its capabilities: the
\* pinned operation called first, whichever it is, records it, and any later
\* pinned method, get_pin_mut or get_mut called at another address panics,
\* whichever operation made the record.
C26_OneRecordForAllCapabilities ==
    /\ (last.op \in PinOps /\ last.n = 0) =>
          /\ trail.first_op = last.op /\ ~last.panic
          /\ this_addr = last.at
    /\ (/\ last.op \in PinOps \cup {"get_mut"}
        /\ trail.first_op # "none" /\ last.first_pin_addr # 0
        /\ last.at # last.first_pin_addr) =>
          /\ last.panic
          /\ this_addr = last.first_pin_addr

C26_Witness ==
    /\ trail.first_op = "poll_ready" /\ last.op = "start_send"
    /\ last.panic /\ last.at # this_addr

C26_WitnessOtherCapability ==
    /\ trail.first_op = "poll_ready" /\ last.op = "poll"
    /\ last.panic /\ last.at # this_addr

C26_WitnessGetMut ==
    /\ trail.first_op = "start_send" /\ last.op = "get_mut"
    /\ last.panic /\ last.at # this_addr

====
